---- MODULE Spec2Model ----
(***************************************************************************)
(* Build-time model of the qsipost workflow builders.                      *)
(*                                                                         *)
(* A behaviour is one call of one builder (variable entry) under one       *)
(* configuration (variable cfg), or up to MaxCalls calls of build_workflow *)
(* on one retval dictionary.  Each action is one block of statements       *)
(* of the builder; wf is the workflow graph under construction, created    *)
(* the set of node objects constructed so far, requested the connections   *)
(* handed to Workflow.connect so far, err the exception raised.            *)
(* init_qsipost_wf also keeps idx (its position in the participant list),  *)
(* calls (the subjects handed to init_single_subject_wf), log_dirs (the    *)
(* directories made), crashdump (the crashdump_dir settings made) and      *)
(* saved (the files config.to_filename wrote); build_workflow keeps the    *)
(* retval dictionary and the number of the call in progress.               *)
(*                                                                         *)
(* Names are tuples of strings: f"single_subject_{id}_wf" is               *)
(* <<"single_subject", id, "wf">>, port "inputnode.dwi_file" is            *)
(* <<"inputnode", "dwi_file">>, f"out_{param}" is <<"out", param>>.        *)
(***************************************************************************)
EXTENDS Integers, Sequences, FiniteSets, TLC

VARIABLES entry, cfg, pc, wf, created, requested, err, kwargs, idx, calls,
          log_dirs, crashdump, saved, retval, callno

vars ==
    <<entry, cfg, pc, wf, created, requested, err, kwargs, idx, calls, log_dirs,
      crashdump, saved, retval, callno>>

\* Bounds of the explored configurations.
MaxParticipants == 2
MaxSessions == 2
MaxCalls == 2

Range(s) == {s[i] : i \in DOMAIN s}

(***************************************************************************)
(* Nodes and workflows (nipype.pipeline.engine as used by the builders).   *)
(***************************************************************************)
Ports(fields) == {<<f>> : f \in fields}

Node(name, kind, ins, outs, opaque) ==
    [name |-> name, kind |-> kind, ins |-> ins, outs |-> outs,
     opaque |-> opaque, kwargs |-> {}, desc |-> <<>>]

\* pe.Node(niu.IdentityInterface(fields=...), name=...): every field is both
\* an input and an output port.
IdentityInterface(name, fields) ==
    Node(<<name>>, "identity", Ports(fields), Ports(fields), FALSE)

\* A node wrapping an external tool interface: its ports are declared by the
\* tool's interface, outside this repository.
Tool(name) == Node(<<name>>, "tool", {}, {}, TRUE)

Workflow(name) == [name |-> name, nodes |-> {}, edges |-> {}]

\* A workflow used as a node of a parent workflow: its ports are
\* "<inner node>.<port>" for the inner nodes' declared ports.
AsNode(w) ==
    [name |-> w.name, kind |-> "workflow",
     ins |-> UNION {{n.name \o p : p \in n.ins} : n \in w.nodes},
     outs |-> UNION {{n.name \o p : p \in n.outs} : n \in w.nodes},
     opaque |-> FALSE, kwargs |-> {}, desc |-> <<>>]

\* One (source, destination, [(source port, destination port)]) item of a
\* connect call, flattened to one record per port pair.
C(src, sport, dst, dport) ==
    [src |-> src, sport |-> sport, dst |-> dst, dport |-> dport]

EdgeOf(c) ==
    [src |-> c.src.name, sport |-> c.sport, dst |-> c.dst.name, dport |-> c.dport]

PortsDeclared(c) ==
    /\ (c.dst.opaque \/ c.dport \in c.dst.ins)
    /\ (c.src.opaque \/ c.sport \in c.src.outs)

\* Workflow.connect: new nodes must not reuse a name of the workflow, no
\* input port may be connected twice, every named port must exist; any of
\* these raises and leaves the graph unchanged, otherwise the nodes and the
\* edges are added.
connect(w, batch) ==
    LET used == {c.src : c \in Range(batch)} \cup {c.dst : c \in Range(batch)}
        new == used \ w.nodes
        names == {n.name : n \in w.nodes}
        dup == \E n \in new :
                  \/ n.name \in names
                  \/ \E m \in new : m # n /\ m.name = n.name
        already == \E i \in DOMAIN batch :
                  \/ \E e \in w.edges :
                        e.dst = batch[i].dst.name /\ e.dport = batch[i].dport
                  \/ \E j \in 1..(i - 1) :
                        /\ batch[j].dst = batch[i].dst
                        /\ batch[j].dport = batch[i].dport
        notfound == \E c \in Range(batch) : ~PortsDeclared(c)
    IN  IF dup THEN [wf |-> w, err |-> "duplicate_name"]
        ELSE IF already THEN [wf |-> w, err |-> "already_connected"]
        ELSE IF notfound THEN [wf |-> w, err |-> "port_not_found"]
        ELSE [wf |-> [w EXCEPT !.nodes = @ \cup new,
                               !.edges = @ \cup {EdgeOf(c) : c \in Range(batch)}],
              err |-> "none"]

\* The state of a builder between two of its statements.
B(w, made, e) == [wf |-> w, created |-> made, req |-> {}, err |-> e]

\* Builder state b after constructing the node objects made.
With(b, made) == [b EXCEPT !.created = @ \cup made]

\* Builder state b after raising e ("none": nothing raised).
Raise(b, e) == [b EXCEPT !.err = e]

\* Builder state b after workflow.connect(batch).
Connected(b, batch) ==
    IF b.err # "none" THEN b
    ELSE LET r == connect(b.wf, batch)
         IN  [b EXCEPT !.wf = r.wf, !.err = r.err,
                       !.req = @ \cup Range(batch)]

(***************************************************************************)
(* Configuration (qsipost.config) read by the builders.                    *)
(***************************************************************************)
\* An optional number: None, or a value (0 is falsy).
None == [set |-> FALSE, val |-> 0]
Some(v) == [set |-> TRUE, val |-> v]
Truthy(x) == x.set /\ x.val # 0

OptValues == {None, Some(0), Some(1)}

\* Participant labels of the dataset.
Subjects == {"01", "02"}

SeqsUpTo(S, n) == UNION {[1..k -> S] : k \in 0..n}

\* atlas_is_str: config.workflow.parcellation_atlas is a name, not an Atlas
\* object; atlas_has_nifti: the Atlas object (given, or loaded from the name)
\* has the attribute atlas_nifti_file.  sessions[s] is the number of session
\* records collect_data returns for subject s.
DefaultCfg ==
    [do_sift_filtering |-> FALSE, sift_term_number |-> None,
     sift_term_ratio |-> None, participant_label |-> <<>>,
     sessions |-> [s \in Subjects |-> 0], anat_only |-> FALSE,
     atlas_is_str |-> TRUE, atlas_has_nifti |-> TRUE]

SubjectCfgs(labels) ==
    {[DefaultCfg EXCEPT !.participant_label = l, !.sessions = n, !.anat_only = a,
                        !.atlas_is_str = i, !.atlas_has_nifti = h] :
        l \in labels, n \in [Subjects -> 0..MaxSessions], a \in BOOLEAN,
        i \in BOOLEAN, h \in BOOLEAN}

SiftCfgs ==
    {[DefaultCfg EXCEPT !.do_sift_filtering = d, !.sift_term_number = n,
                        !.sift_term_ratio = r] :
        d \in BOOLEAN, n \in OptValues, r \in OptValues}

(***************************************************************************)
(* workflows/anatomical/procedures/register_atlas.py                       *)
(***************************************************************************)
reg_inputnode ==
    IdentityInterface("inputnode",
        {"anatomical_reference", "mni_to_native_transform", "atlas_name",
         "atlas_nifti_file"})

reg_outputnode == IdentityInterface("outputnode", {"whole_brain_parcellation"})

apply_transforms == Tool("apply_transforms")

reg_nodes ==
    B(Workflow(<<"atlas_registration">>),
      {reg_inputnode, reg_outputnode, apply_transforms}, "none")

\* reg_connections with the warped image also fed back into the input node.
reg_connections_fed_back ==
    << C(reg_inputnode, <<"atlas_nifti_file">>, apply_transforms, <<"input_image">>),
       C(reg_inputnode, <<"mni_to_native_transform">>, apply_transforms, <<"transforms">>),
       C(reg_inputnode, <<"anatomical_reference">>, apply_transforms, <<"reference_image">>),
       C(apply_transforms, <<"output_image">>, reg_outputnode, <<"whole_brain_parcellation">>),
       C(apply_transforms, <<"output_image">>, reg_inputnode, <<"atlas_nifti_file">>) >>

reg_connections ==
    << C(reg_inputnode, <<"atlas_nifti_file">>, apply_transforms, <<"input_image">>),
       C(reg_inputnode, <<"mni_to_native_transform">>, apply_transforms, <<"transforms">>),
       C(reg_inputnode, <<"anatomical_reference">>, apply_transforms, <<"reference_image">>),
       C(apply_transforms, <<"output_image">>, reg_outputnode, <<"whole_brain_parcellation">>) >>

init_registration_wf == Connected(reg_nodes, reg_connections)

(***************************************************************************)
(* workflows/diffusion/procedures/tensor_estimations/mrtrix3.py            *)
(***************************************************************************)
TENSOR_PARAMETERS == <<"adc", "fa", "ad", "rd", "cl", "cp", "cs", "evec", "eval">>

\* str(i) for the indices of a fan-in port name.
Str == <<"1", "2", "3", "4", "5", "6", "7", "8", "9", "10">>

\* f"in{i+1}" for the 0-based enumerate index i.
MergePort(i) == <<"in", Str[i + 1]>>

\* niu.Merge(numinputs): ports in1..in<numinputs>, one output "out".
Merge(name, numinputs) ==
    Node(<<name>>, "fan-in", {<<"in", Str[k]>> : k \in 1..numinputs},
         {<<"out">>}, FALSE)

tensor_inputnode ==
    IdentityInterface("inputnode",
        {"base_directory", "dwi_nifti", "dwi_grad", "dwi_mask"})

tensor_outputnode == IdentityInterface("outputnode", Range(TENSOR_PARAMETERS))

dwi2tensor_wf == Tool("mrtrix3_tensor_wf")

tensor2metric_wf == Tool("mrtrix3_tensor2metric_wf")

\* Mutant of listify_metrics_wf: a fan-in one port short.
listify_one_short == Merge("listify_tensor_params", Len(TENSOR_PARAMETERS) - 1)

listify_metrics_wf == Merge("listify_tensor_params", Len(TENSOR_PARAMETERS))

\* pe.MapNode(DerivativesDataSink(...), iterfield=["in_file", "desc"]) with
\* inputs.desc = TENSOR_PARAMETERS.
ds_tensor_wf ==
    [Tool("ds_tensor_wf") EXCEPT !.kind = "mapnode", !.desc = TENSOR_PARAMETERS]

tensor_nodes ==
    B(Workflow(<<"mrtrix3_tensor_wf">>),
      {tensor_inputnode, tensor_outputnode, dwi2tensor_wf, tensor2metric_wf,
       listify_metrics_wf, ds_tensor_wf}, "none")

tensor_connections ==
    << C(tensor_inputnode, <<"dwi_nifti">>, dwi2tensor_wf, <<"in_file">>),
       C(tensor_inputnode, <<"dwi_grad">>, dwi2tensor_wf, <<"grad_file">>),
       C(tensor_inputnode, <<"dwi_mask">>, dwi2tensor_wf, <<"in_mask">>),
       C(dwi2tensor_wf, <<"out_file">>, tensor2metric_wf, <<"in_file">>) >>
    \o [k \in 1..Len(TENSOR_PARAMETERS) |->
          C(tensor2metric_wf, <<"out", TENSOR_PARAMETERS[k]>>,
            tensor_outputnode, <<TENSOR_PARAMETERS[k]>>)]
    \o [k \in 1..Len(TENSOR_PARAMETERS) |->
          C(tensor_outputnode, <<TENSOR_PARAMETERS[k]>>,
            listify_metrics_wf, MergePort(k - 1))]
    \o << C(listify_metrics_wf, <<"out">>, ds_tensor_wf, <<"in_file">>),
          C(tensor_inputnode, <<"base_directory">>, ds_tensor_wf, <<"base_directory">>),
          C(tensor_inputnode, <<"dwi_nifti">>, ds_tensor_wf, <<"source_file">>) >>

init_mrtrix3_tensor_wf == Connected(tensor_nodes, tensor_connections)

(***************************************************************************)
(* workflows/diffusion/procedures/tractography/mrtrix.py                   *)
(***************************************************************************)
mrtrix_inputnode ==
    IdentityInterface("inputnode",
        {"dwi_file", "dwi_reference", "dwi_grad", "dwi_mask_file", "t1w_file",
         "t1w_mask_file"})

mrtrix_outputnode == IdentityInterface("outputnode", {"tck_file"})

dwi2response_node == Tool("dwi2response")

dwi2fod_node == Tool("dwi2fod")

mtnormalise_node == Tool("mtnormalise")

gen_5tt_node == Tool("gen_5tt")

\* niu.Function with declared input_names and output_names.
estimate_tracts_parameters_node ==
    Node(<<"estimate_tractography_parameters">>, "function",
         Ports({"in_file", "stepscale", "lenscale_min", "lenscale_max"}),
         Ports({"stepscale", "lenscale_min", "lenscale_max"}), FALSE)

tckgen_node == Tool("tckgen")

ds_tracts == Tool("ds_unfiltered_tracts")

mrtrix_nodes ==
    B(Workflow(<<"mrtrix_tractography_wf">>),
      {mrtrix_inputnode, mrtrix_outputnode, dwi2response_node, dwi2fod_node,
       mtnormalise_node, gen_5tt_node, estimate_tracts_parameters_node,
       tckgen_node, ds_tracts}, "none")

mrtrix_connections ==
    << C(mrtrix_inputnode, <<"dwi_file">>, dwi2response_node, <<"in_file">>),
       C(mrtrix_inputnode, <<"dwi_grad">>, dwi2response_node, <<"grad_file">>),
       C(mrtrix_inputnode, <<"dwi_mask_file">>, dwi2response_node, <<"in_mask">>),
       C(mrtrix_inputnode, <<"dwi_file">>, dwi2fod_node, <<"in_file">>),
       C(mrtrix_inputnode, <<"dwi_grad">>, dwi2fod_node, <<"grad_file">>),
       C(mrtrix_inputnode, <<"dwi_mask_file">>, dwi2fod_node, <<"in_mask">>),
       C(dwi2response_node, <<"wm_file">>, dwi2fod_node, <<"wm_txt">>),
       C(dwi2response_node, <<"gm_file">>, dwi2fod_node, <<"gm_txt">>),
       C(dwi2response_node, <<"csf_file">>, dwi2fod_node, <<"csf_txt">>),
       C(dwi2fod_node, <<"wm_odf">>, mtnormalise_node, <<"in_wm_fod">>),
       C(dwi2fod_node, <<"gm_odf">>, mtnormalise_node, <<"in_gm_fod">>),
       C(dwi2fod_node, <<"csf_odf">>, mtnormalise_node, <<"in_csf_fod">>),
       C(mrtrix_inputnode, <<"dwi_mask_file">>, mtnormalise_node, <<"in_mask">>),
       C(mrtrix_inputnode, <<"t1w_file">>, gen_5tt_node, <<"in_file">>),
       C(mrtrix_inputnode, <<"t1w_mask_file">>, gen_5tt_node, <<"in_mask">>),
       C(mtnormalise_node, <<"out_wm_fod">>, tckgen_node, <<"in_file">>),
       C(mrtrix_inputnode, <<"dwi_file">>, estimate_tracts_parameters_node, <<"in_file">>),
       C(gen_5tt_node, <<"out_file">>, tckgen_node, <<"act_file">>),
       C(estimate_tracts_parameters_node, <<"stepscale">>, tckgen_node, <<"step_size">>),
       C(estimate_tracts_parameters_node, <<"lenscale_min">>, tckgen_node, <<"min_length">>),
       C(estimate_tracts_parameters_node, <<"lenscale_max">>, tckgen_node, <<"max_length">>),
       C(mrtrix_inputnode, <<"dwi_mask_file">>, tckgen_node, <<"seed_image">>),
       C(tckgen_node, <<"out_file">>, mrtrix_outputnode, <<"tck_file">>),
       C(tckgen_node, <<"out_file">>, ds_tracts, <<"in_file">>),
       C(mrtrix_inputnode, <<"dwi_file">>, ds_tracts, <<"source_file">>) >>

\* Mutant of tcksift_kwargs: two independent tests instead of if / elif.
tcksift_kwargs_both(c) ==
    [keys |-> (IF Truthy(c.sift_term_number) THEN {"term_number"} ELSE {})
              \cup (IF Truthy(c.sift_term_ratio) THEN {"term_ratio"} ELSE {}),
     err |-> IF Truthy(c.sift_term_number) \/ Truthy(c.sift_term_ratio)
             THEN "none" ELSE "ValueError"]

\* mrtrix.py 259-270: the termination criterion handed to tcksift.
tcksift_kwargs(c) ==
    IF Truthy(c.sift_term_number)
    THEN [keys |-> {"term_number"}, err |-> "none"]
    ELSE IF Truthy(c.sift_term_ratio)
    THEN [keys |-> {"term_ratio"}, err |-> "none"]
    ELSE [keys |-> {}, err |-> "ValueError"]

\* mrtrix.py 271-277: mrt.TCKSift(**tcksift_kwargs, fd_scale_gm=True)
tcksift_node(keys) ==
    [Tool("tcksift") EXCEPT !.kwargs = keys \cup {"fd_scale_gm"}]

sift_connections(sift) ==
    << C(tckgen_node, <<"out_file">>, sift, <<"in_tracks">>),
       C(mtnormalise_node, <<"out_wm_fod">>, sift, <<"in_fod">>),
       C(gen_5tt_node, <<"out_file">>, sift, <<"act_file">>),
       C(sift, <<"out_file">>, mrtrix_outputnode, <<"tck_file">>) >>

\* mrtrix.py 271-309 on builder state b with the chosen criterion keys.
mrtrix_sift(b, keys) ==
    Connected(With(b, {tcksift_node(keys)}),
              sift_connections(tcksift_node(keys)))

\* The whole builder, as a caller sees it.
init_mrtrix_tractography_wf(c) ==
    LET b == Connected(mrtrix_nodes, mrtrix_connections)
        k == tcksift_kwargs(c)
    IN  IF b.err # "none" \/ ~c.do_sift_filtering THEN b
        ELSE IF k.err # "none" THEN Raise(b, k.err)
        ELSE mrtrix_sift(b, k.keys)

(***************************************************************************)
(* workflows/diffusion/procedures/tractography/tractography.py             *)
(***************************************************************************)
tract_inputnode ==
    IdentityInterface("inputnode",
        {"base_directory", "dwi_reference", "dwi_nifti", "dwi_bvec", "dwi_bval",
         "dwi_grad", "dwi_mask", "t1w_file", "t1w_mask_file"})

tract_nodes == B(Workflow(<<"tractography_wf">>), {tract_inputnode}, "none")

\* tractography.py 42: mrtrix3_tractography_wf = init_mrtrix_tractography_wf()
tract_call(b, c) ==
    LET r == init_mrtrix_tractography_wf(c)
    IN  [(IF r.err # "none" THEN Raise(b, r.err) ELSE With(b, {AsNode(r.wf)}))
            EXCEPT !.req = @ \cup r.req]

tract_connections(sub) ==
    << C(tract_inputnode, <<"dwi_nifti">>, sub, <<"inputnode", "dwi_file">>),
       C(tract_inputnode, <<"dwi_reference">>, sub, <<"inputnode", "dwi_reference">>),
       C(tract_inputnode, <<"dwi_grad">>, sub, <<"inputnode", "dwi_grad">>),
       C(tract_inputnode, <<"dwi_mask">>, sub, <<"inputnode", "dwi_mask_file">>),
       C(tract_inputnode, <<"t1w_file">>, sub, <<"inputnode", "t1w_file">>),
       C(tract_inputnode, <<"t1w_mask_file">>, sub, <<"inputnode", "t1w_mask_file">>) >>

init_tractography_wf(c) ==
    LET b == tract_call(tract_nodes, c)
    IN  IF b.err # "none" THEN b
        ELSE Connected(b, tract_connections(AsNode(init_mrtrix_tractography_wf(c).wf)))

(***************************************************************************)
(* workflows/base.py                                                       *)
(***************************************************************************)
inputnode_subject ==
    IdentityInterface("inputnode_subject",
        {"base_directory", "anatomical_reference", "anatomical_brain_mask",
         "mni_to_native_transform", "gm_probabilistic_segmentation",
         "atlas_name", "atlas_nifti", "atlas_table", "label_column",
         "subject_id", "freesurfer_dir"})

\* init_anatomical_wf(name="anatomical_wf"), defined outside the given
\* sources: a nested workflow exposing the ports its caller wires.
anatomical_workflow ==
    [name |-> <<"anatomical_wf">>, kind |-> "workflow",
     ins |-> {<<"inputnode", f>> : f \in
                {"base_directory", "atlas_name", "atlas_nifti_file",
                 "anatomical_reference", "mni_to_native_transform",
                 "gm_probabilistic_segmentation", "subject_id",
                 "freesurfer_dir"}},
     outs |-> {<<"outputnode", f>> : f \in
                {"whole_brain_parcellation", "gm_cropped_parcellation"}},
     opaque |-> FALSE, kwargs |-> {}, desc |-> <<>>]

\* init_diffusion_wf(dwi_data=session_inputs) for the k-th session record,
\* defined outside the given sources: a nested workflow named after its
\* session, exposing the ports its caller wires.
session_workflow(k) ==
    [name |-> <<"diffusion_wf", Str[k]>>, kind |-> "workflow",
     ins |-> {<<"inputnode", f>> : f \in
                {"base_directory", "atlas_name", "t1w_file", "t1w_mask_file",
                 "whole_brain_t1w_parcellation", "gm_cropped_t1w_parcellation"}},
     outs |-> {}, opaque |-> FALSE, kwargs |-> {}, desc |-> <<>>]

\* f"single_subject_{subject_id}_wf"
subject_wf_name(subject_id) == <<"single_subject", subject_id, "wf">>

\* base.py 124-172: the workflow and inputnode_subject; line 162 reads
\* parcellation_atlas.atlas_nifti_file.
subject_nodes(subject_id, c) ==
    B(Workflow(subject_wf_name(subject_id)), {inputnode_subject},
      IF c.atlas_has_nifti THEN "none" ELSE "AttributeError")

\* base.py 177-200
anat_connections ==
    << C(inputnode_subject, <<"base_directory">>,
         anatomical_workflow, <<"inputnode", "base_directory">>),
       C(inputnode_subject, <<"atlas_name">>,
         anatomical_workflow, <<"inputnode", "atlas_name">>),
       C(inputnode_subject, <<"atlas_nifti_file">>,
         anatomical_workflow, <<"inputnode", "atlas_nifti_file">>),
       C(inputnode_subject, <<"anatomical_reference">>,
         anatomical_workflow, <<"inputnode", "anatomical_reference">>),
       C(inputnode_subject, <<"mni_to_native_transform">>,
         anatomical_workflow, <<"inputnode", "mni_to_native_transform">>),
       C(inputnode_subject, <<"gm_probabilistic_segmentation">>,
         anatomical_workflow, <<"inputnode", "gm_probabilistic_segmentation">>),
       C(inputnode_subject, <<"subject_id">>,
         anatomical_workflow, <<"inputnode", "subject_id">>),
       C(inputnode_subject, <<"freesurfer_dir">>,
         anatomical_workflow, <<"inputnode", "freesurfer_dir">>) >>

\* base.py 211-238
session_connections(k) ==
    << C(inputnode_subject, <<"base_directory">>,
         session_workflow(k), <<"inputnode", "base_directory">>),
       C(inputnode_subject, <<"atlas_name">>,
         session_workflow(k), <<"inputnode", "atlas_name">>),
       C(inputnode_subject, <<"anatomical_reference">>,
         session_workflow(k), <<"inputnode", "t1w_file">>),
       C(inputnode_subject, <<"anatomical_brain_mask">>,
         session_workflow(k), <<"inputnode", "t1w_mask_file">>),
       C(anatomical_workflow, <<"outputnode", "whole_brain_parcellation">>,
         session_workflow(k), <<"inputnode", "whole_brain_t1w_parcellation">>),
       C(anatomical_workflow, <<"outputnode", "gm_cropped_parcellation">>,
         session_workflow(k), <<"inputnode", "gm_cropped_t1w_parcellation">>) >>

\* base.py 209-240: the loop over sessions_data.values(), from record k on.
RECURSIVE subject_sessions(_, _, _)
subject_sessions(b, k, n) ==
    IF k > n \/ b.err # "none" THEN b
    ELSE subject_sessions(
            Connected(With(b, {session_workflow(k)}), session_connections(k)),
            k + 1, n)

\* base.py 174-242 on builder state b.
subject_connect(b, subject_id, c) ==
    LET a == Connected(With(b, {anatomical_workflow}), anat_connections)
    IN  IF a.err # "none" \/ c.anat_only THEN a
        ELSE subject_sessions(a, 1, c.sessions[subject_id])

\* The whole builder, as init_qsipost_wf sees it.
init_single_subject_wf(subject_id, c) ==
    LET b == subject_nodes(subject_id, c)
    IN  IF b.err # "none" THEN b ELSE subject_connect(b, subject_id, c)

\* Mutant of atlas_check: the atlas is loaded but never checked.
atlas_unchecked(c) == "none"

\* base.py 39-47: the atlas check of init_qsipost_wf.
atlas_check(c) ==
    IF c.atlas_is_str /\ ~c.atlas_has_nifti THEN "ValueError" ELSE "none"

\* Workflow.add_nodes([node]) for a freshly built node.
add_nodes(w, n) ==
    IF n.name \in {m.name : m \in w.nodes}
    THEN [wf |-> w, err |-> "duplicate_name"]
    ELSE [wf |-> [w EXCEPT !.nodes = @ \cup {n}], err |-> "none"]

\* output_dir / f"sub-{subject_id}" / "log" / run_uuid
log_dir(subject_id) == <<"output_dir", "sub", subject_id, "log", "run_uuid">>

\* base.py 60-70: crashdump_dir set on the subject workflow w (node <<>>)
\* and copied into the config of every node inside it.
crashdump_dirs(w, subject_id) ==
    {[wf |-> w.name, node |-> n, dir |-> log_dir(subject_id)] :
        n \in {<<>>} \cup {m.name : m \in w.nodes}}

\* The retval dictionary of build_workflow: has_keys is whether
\* "return_code" and "workflow" are set; workflow is the number of the call
\* that built the stored workflow, 0 for None.
NoRetval == [has_keys |-> FALSE, return_code |-> 0, workflow |-> 0]

(***************************************************************************)
(* The state machine.                                                      *)
(***************************************************************************)
Entries ==
    {"init_registration_wf", "init_mrtrix3_tensor_wf",
     "init_mrtrix_tractography_wf", "init_tractography_wf",
     "init_single_subject_wf", "init_qsipost_wf", "build_workflow"}

\* The configurations config.load can read from a configuration file.
ConfigFiles ==
    {[DefaultCfg EXCEPT !.participant_label = l, !.atlas_is_str = i,
                        !.atlas_has_nifti = h] :
        l \in SeqsUpTo(Subjects, 1), i \in BOOLEAN, h \in BOOLEAN}

\* init_qsipost_wf runs on its own or as the call at workflow.py 57.
InQsipost == entry \in {"init_qsipost_wf", "build_workflow"}

CfgsOf(e) ==
    IF e \in {"init_mrtrix_tractography_wf", "init_tractography_wf"} THEN SiftCfgs
    ELSE IF e = "init_single_subject_wf" THEN SubjectCfgs([1..1 -> Subjects])
    ELSE IF e = "init_qsipost_wf"
    THEN SubjectCfgs(SeqsUpTo(Subjects, MaxParticipants))
    ELSE {DefaultCfg}

Init ==
    /\ entry \in Entries
    /\ cfg \in CfgsOf(entry)
    /\ pc = IF entry = "build_workflow" THEN "bw_load" ELSE "start"
    /\ wf = Workflow(<<>>)
    /\ created = {}
    /\ requested = {}
    /\ err = "none"
    /\ kwargs = {}
    /\ idx = 1
    /\ calls = <<>>
    /\ log_dirs = {}
    /\ crashdump = {}
    /\ saved = {}
    /\ retval = NoRetval
    /\ callno = 1

\* Moves to pc next with builder state b, or to "raised" when b holds an error.
Step(b, next) ==
    /\ wf' = b.wf
    /\ created' = b.created
    /\ requested' = b.req
    /\ err' = b.err
    /\ pc' = IF b.err = "none" THEN next ELSE "raised"
    /\ UNCHANGED <<entry, cfg>>

Now == [wf |-> wf, created |-> created, req |-> requested, err |-> err]

\* register_atlas.py 17-42: the workflow and its three nodes.
RegCreate ==
    /\ entry = "init_registration_wf" /\ pc = "start"
    /\ Step(reg_nodes, "connect")
    /\ UNCHANGED <<kwargs, idx, calls, log_dirs, crashdump, saved, retval, callno>>

\* register_atlas.py 43-62
RegConnect ==
    /\ entry = "init_registration_wf" /\ pc = "connect"
    /\ Step(Connected(Now, reg_connections), "return")
    /\ UNCHANGED <<kwargs, idx, calls, log_dirs, crashdump, saved, retval, callno>>

\* mrtrix3.py 38-77
TensorCreate ==
    /\ entry = "init_mrtrix3_tensor_wf" /\ pc = "start"
    /\ Step(tensor_nodes, "connect")
    /\ UNCHANGED <<kwargs, idx, calls, log_dirs, crashdump, saved, retval, callno>>

\* mrtrix3.py 79-121
TensorConnect ==
    /\ entry = "init_mrtrix3_tensor_wf" /\ pc = "connect"
    /\ Step(Connected(Now, tensor_connections), "return")
    /\ UNCHANGED <<kwargs, idx, calls, log_dirs, crashdump, saved, retval, callno>>

\* mrtrix.py 63-144
MrtrixCreate ==
    /\ entry = "init_mrtrix_tractography_wf" /\ pc = "start"
    /\ Step(mrtrix_nodes, "connect")
    /\ UNCHANGED <<kwargs, idx, calls, log_dirs, crashdump, saved, retval, callno>>

\* mrtrix.py 145-257
MrtrixConnect ==
    /\ entry = "init_mrtrix_tractography_wf" /\ pc = "connect"
    /\ Step(Connected(Now, mrtrix_connections), "sift")
    /\ UNCHANGED <<kwargs, idx, calls, log_dirs, crashdump, saved, retval, callno>>

\* mrtrix.py 258: filtering disabled
MrtrixNoSift ==
    /\ entry = "init_mrtrix_tractography_wf" /\ pc = "sift"
    /\ ~cfg.do_sift_filtering
    /\ Step(Now, "return")
    /\ UNCHANGED <<kwargs, idx, calls, log_dirs, crashdump, saved, retval, callno>>

\* mrtrix.py 258-270
MrtrixSiftKwargs ==
    /\ entry = "init_mrtrix_tractography_wf" /\ pc = "sift"
    /\ cfg.do_sift_filtering
    /\ kwargs' = tcksift_kwargs(cfg).keys
    /\ Step(Raise(Now, tcksift_kwargs(cfg).err), "tcksift")
    /\ UNCHANGED <<idx, calls, log_dirs, crashdump, saved, retval, callno>>

\* mrtrix.py 271-309
MrtrixSiftNode ==
    /\ entry = "init_mrtrix_tractography_wf" /\ pc = "tcksift"
    /\ Step(mrtrix_sift(Now, kwargs), "return")
    /\ UNCHANGED <<kwargs, idx, calls, log_dirs, crashdump, saved, retval, callno>>

\* tractography.py 25-41
TractCreate ==
    /\ entry = "init_tractography_wf" /\ pc = "start"
    /\ Step(tract_nodes, "call")
    /\ UNCHANGED <<kwargs, idx, calls, log_dirs, crashdump, saved, retval, callno>>

\* tractography.py 42
TractCall ==
    /\ entry = "init_tractography_wf" /\ pc = "call"
    /\ Step(tract_call(Now, cfg), "connect")
    /\ UNCHANGED <<kwargs, idx, calls, log_dirs, crashdump, saved, retval, callno>>

\* tractography.py 43-58
TractConnect ==
    /\ entry = "init_tractography_wf" /\ pc = "connect"
    /\ Step(Connected(Now, tract_connections(
                AsNode(init_mrtrix_tractography_wf(cfg).wf))), "return")
    /\ UNCHANGED <<kwargs, idx, calls, log_dirs, crashdump, saved, retval, callno>>

\* base.py 124-172
SubjectCreate ==
    /\ entry = "init_single_subject_wf" /\ pc = "start"
    /\ Step(subject_nodes(cfg.participant_label[1], cfg), "connect")
    /\ UNCHANGED <<kwargs, idx, calls, log_dirs, crashdump, saved, retval, callno>>

\* base.py 174-242
SubjectConnect ==
    /\ entry = "init_single_subject_wf" /\ pc = "connect"
    /\ Step(subject_connect(Now, cfg.participant_label[1], cfg), "return")
    /\ UNCHANGED <<kwargs, idx, calls, log_dirs, crashdump, saved, retval, callno>>

\* base.py 39-47
QsipostAtlas ==
    /\ InQsipost /\ pc = "start"
    /\ Step(Raise(Now, atlas_check(cfg)), "root")
    /\ UNCHANGED <<kwargs, idx, calls, log_dirs, crashdump, saved, retval, callno>>

\* base.py 49-51
QsipostRoot ==
    /\ InQsipost /\ pc = "root"
    /\ Step([Now EXCEPT !.wf = Workflow(<<"qsipost", "wf">>)], "loop")
    /\ UNCHANGED <<kwargs, idx, calls, log_dirs, crashdump, saved, retval, callno>>

\* Mutant of QsipostSubject: a subject whose build fails is skipped and the
\* loop goes on (the handler left commented out at base.py 85-92).
QsipostSubjectSkipping ==
    /\ InQsipost /\ pc = "loop"
    /\ idx <= Len(cfg.participant_label)
    /\ LET subject_id == cfg.participant_label[idx]
           r == init_single_subject_wf(subject_id, cfg)
           a == add_nodes(wf, AsNode(r.wf))
           called == [Now EXCEPT !.req = @ \cup r.req]
       IN  /\ calls' = Append(calls, subject_id)
           /\ idx' = idx + 1
           /\ IF r.err # "none" \/ a.err # "none"
              THEN /\ Step(called, "loop")
                   /\ UNCHANGED <<log_dirs, crashdump, saved>>
              ELSE /\ Step([With(called, {AsNode(r.wf)}) EXCEPT !.wf = a.wf],
                           "loop")
                   /\ crashdump' = crashdump \cup crashdump_dirs(r.wf, subject_id)
                   /\ log_dirs' = log_dirs \cup {log_dir(subject_id)}
                   /\ saved' = saved \cup {Append(log_dir(subject_id), "qsipost.toml")}
    /\ UNCHANGED <<kwargs, retval, callno>>

\* base.py 53-84: one iteration of the loop over participant_label.
QsipostSubject ==
    /\ InQsipost /\ pc = "loop"
    /\ idx <= Len(cfg.participant_label)
    /\ LET subject_id == cfg.participant_label[idx]
           r == init_single_subject_wf(subject_id, cfg)
           a == add_nodes(wf, AsNode(r.wf))
           called == [Now EXCEPT !.req = @ \cup r.req]
       IN  /\ calls' = Append(calls, subject_id)
           /\ IF r.err # "none"
              THEN /\ Step(Raise(called, r.err), "loop")
                   /\ UNCHANGED <<idx, log_dirs, crashdump, saved>>
              ELSE IF a.err # "none"
              THEN /\ Step(Raise(called, a.err), "loop")
                   /\ crashdump' = crashdump \cup crashdump_dirs(r.wf, subject_id)
                   /\ UNCHANGED <<idx, log_dirs, saved>>
              ELSE /\ Step([With(called, {AsNode(r.wf)}) EXCEPT !.wf = a.wf],
                           "loop")
                   /\ idx' = idx + 1
                   /\ crashdump' = crashdump \cup crashdump_dirs(r.wf, subject_id)
                   /\ log_dirs' = log_dirs \cup {log_dir(subject_id)}
                   /\ saved' = saved \cup {Append(log_dir(subject_id), "qsipost.toml")}
    /\ UNCHANGED <<kwargs, retval, callno>>

\* base.py 53, 93: the participant list is exhausted.
QsipostDone ==
    /\ InQsipost /\ pc = "loop"
    /\ idx > Len(cfg.participant_label)
    /\ Step(Now, "return")
    /\ UNCHANGED <<kwargs, idx, calls, log_dirs, crashdump, saved, retval, callno>>

\* workflow.py 29-33: config.load reads the configuration file, or raises.
BwLoad ==
    /\ entry = "build_workflow" /\ pc = "bw_load"
    /\ \/ /\ cfg' \in ConfigFiles
          /\ pc' = "bw_reset"
          /\ UNCHANGED err
       \/ /\ pc' = "raised"
          /\ err' = "config_load"
          /\ UNCHANGED cfg
    /\ UNCHANGED <<entry, wf, created, requested, kwargs, idx, calls, log_dirs,
                   crashdump, saved, retval, callno>>

\* workflow.py 35-36
BwReset ==
    /\ entry = "build_workflow" /\ pc = "bw_reset"
    /\ retval' = [has_keys |-> TRUE, return_code |-> 1, workflow |-> 0]
    /\ pc' = "bw_collect"
    /\ UNCHANGED <<entry, cfg, wf, created, requested, err, kwargs, idx, calls,
                   log_dirs, crashdump, saved, callno>>

\* workflow.py 38-57: collect_participants returns or raises; the subject
\* list only goes into the log message; then init_qsipost_wf is entered.
BwCollect ==
    /\ entry = "build_workflow" /\ pc = "bw_collect"
    /\ \/ /\ pc' = "start"
          /\ UNCHANGED err
       \/ /\ pc' = "raised"
          /\ err' = "collect_participants"
    /\ UNCHANGED <<entry, cfg, wf, created, requested, kwargs, idx, calls,
                   log_dirs, crashdump, saved, retval, callno>>

\* workflow.py 57: init_qsipost_wf has returned; its workflow is stored.
BwBuilt ==
    /\ entry = "build_workflow" /\ pc = "return"
    /\ retval' = [retval EXCEPT !.workflow = callno]
    /\ pc' = "bw_save"
    /\ UNCHANGED <<entry, cfg, wf, created, requested, err, kwargs, idx, calls,
                   log_dirs, crashdump, saved, callno>>

\* workflow.py 58: config.to_filename writes the file or raises.
BwSave ==
    /\ entry = "build_workflow" /\ pc = "bw_save"
    /\ \/ /\ saved' = saved \cup {<<"config_file">>}
          /\ pc' = "bw_done"
          /\ UNCHANGED err
       \/ /\ pc' = "raised"
          /\ err' = "to_filename"
          /\ UNCHANGED saved
    /\ UNCHANGED <<entry, cfg, wf, created, requested, kwargs, idx, calls,
                   log_dirs, crashdump, retval, callno>>

\* workflow.py 60-65
BwDone ==
    /\ entry = "build_workflow" /\ pc = "bw_done"
    /\ retval' = [retval EXCEPT !.return_code = 0]
    /\ pc' = "returned"
    /\ UNCHANGED <<entry, cfg, wf, created, requested, err, kwargs, idx, calls,
                   log_dirs, crashdump, saved, callno>>

\* workflow.py 8: build_workflow is called again with the same retval
\* dictionary (the default argument is one dictionary for all calls); the
\* configuration and the files written stay as the last call left them.
BwNextCall ==
    /\ entry = "build_workflow" /\ pc \in {"returned", "raised"}
    /\ callno < MaxCalls
    /\ callno' = callno + 1
    /\ pc' = "bw_load"
    /\ wf' = Workflow(<<>>)
    /\ created' = {}
    /\ requested' = {}
    /\ err' = "none"
    /\ idx' = 1
    /\ calls' = <<>>
    /\ UNCHANGED <<entry, cfg, kwargs, log_dirs, crashdump, saved, retval>>

\* return workflow
Return ==
    /\ entry # "build_workflow"
    /\ pc = "return"
    /\ pc' = "returned"
    /\ UNCHANGED <<entry, cfg, wf, created, requested, err, kwargs, idx, calls,
                   log_dirs, crashdump, saved, retval, callno>>

Next ==
    \/ RegCreate
    \/ RegConnect
    \/ TensorCreate
    \/ TensorConnect
    \/ MrtrixCreate
    \/ MrtrixConnect
    \/ MrtrixNoSift
    \/ MrtrixSiftKwargs
    \/ MrtrixSiftNode
    \/ TractCreate
    \/ TractCall
    \/ TractConnect
    \/ SubjectCreate
    \/ SubjectConnect
    \/ QsipostAtlas
    \/ QsipostRoot
    \/ QsipostSubject
    \/ QsipostDone
    \/ Return
    \/ BwLoad
    \/ BwReset
    \/ BwCollect
    \/ BwBuilt
    \/ BwSave
    \/ BwDone
    \/ BwNextCall

Spec == Init /\ [][Next]_vars

(***************************************************************************)
(* Properties.                                                             *)
(***************************************************************************)
Ended == pc \in {"returned", "raised"}

NodeNames(w) == {n.name : n \in w.nodes}

\* The session subgraphs of a subject workflow.
SessionNodes(w) ==
    {n \in w.nodes : n.kind = "workflow" /\ n.name[1] = "diffusion_wf"}

\* Session subgraph n takes both parcellations from the node anatomical_wf.
WiredToAnatomical(w, n) ==
    \A p \in {"whole_brain", "gm_cropped"} :
        \E e \in w.edges :
            /\ e.dst = n.name
            /\ e.dport = <<"inputnode",
                           IF p = "whole_brain"
                           THEN "whole_brain_t1w_parcellation"
                           ELSE "gm_cropped_t1w_parcellation">>
            /\ e.src = <<"anatomical_wf">>
            /\ e.sport = <<"outputnode",
                           IF p = "whole_brain"
                           THEN "whole_brain_parcellation"
                           ELSE "gm_cropped_parcellation">>

\* C1: with anat_only false and a resolved atlas, init_single_subject_wf ends
\* by returning a workflow that holds exactly K session subgraphs for the K
\* session records of the subject, each wired to the one anatomical_wf node.
C1_SessionFanout ==
    (/\ entry = "init_single_subject_wf"
     /\ Ended
     /\ ~cfg.anat_only
     /\ cfg.atlas_has_nifti)
    => /\ pc = "returned"
       /\ Cardinality(SessionNodes(wf)) = cfg.sessions[cfg.participant_label[1]]
       /\ Cardinality({n \in wf.nodes : n.name = <<"anatomical_wf">>}) = 1
       /\ \A n \in SessionNodes(wf) : WiredToAnatomical(wf, n)

\* C2: with anat_only true and a resolved atlas, init_single_subject_wf ends
\* by returning a workflow that holds only inputnode_subject and
\* anatomical_wf, whatever the number of session records.
C2_AnatOnlyNoSessions ==
    (/\ entry = "init_single_subject_wf"
     /\ Ended
     /\ cfg.anat_only
     /\ cfg.atlas_has_nifti)
    => /\ pc = "returned"
       /\ NodeNames(wf) = {<<"inputnode_subject">>, <<"anatomical_wf">>}
       /\ SessionNodes(wf) = {}

\* C3: with a resolved atlas, init_qsipost_wf ends by returning a root
\* workflow that holds one subgraph single_subject_<id>_wf per entry of the
\* participant list, under pairwise distinct names.
C3_OneSubgraphPerParticipant ==
    (/\ entry = "init_qsipost_wf"
     /\ Ended
     /\ cfg.atlas_has_nifti)
    => /\ pc = "returned"
       /\ NodeNames(wf) =
            {subject_wf_name(cfg.participant_label[i]) :
                i \in DOMAIN cfg.participant_label}
       /\ Cardinality(wf.nodes) = Len(cfg.participant_label)
       /\ Cardinality(NodeNames(wf)) = Cardinality(wf.nodes)

\* C4: when filtering is enabled with neither criterion set, the
\* tractography builder raises before any node has been constructed or
\* connected.
C4_FailsBeforeAnyNode ==
    (/\ entry = "init_mrtrix_tractography_wf"
     /\ err = "ValueError")
    => /\ created = {}
       /\ wf.nodes = {}
       /\ wf.edges = {}

Criteria == {"term_number", "term_ratio"}

\* C5: with filtering enabled, once the criterion has been chosen the build
\* has either raised without a tcksift node, or chosen exactly one of
\* term_number and term_ratio, and every tcksift node constructed carries
\* exactly one of them.
C5_ExactlyOneCriterion ==
    /\ (/\ entry = "init_mrtrix_tractography_wf"
        /\ cfg.do_sift_filtering
        /\ pc \in {"tcksift", "return", "returned", "raised"})
       => \/ /\ err = "ValueError"
             /\ \A n \in created : n.name # <<"tcksift">>
          \/ /\ err # "ValueError"
             /\ Cardinality(kwargs \cap Criteria) = 1
    /\ \A n \in created :
          n.name = <<"tcksift">> => Cardinality(n.kwargs \cap Criteria) = 1

\* C5 witness: both criteria are set and a tcksift node has been constructed.
C5_Witness ==
    /\ entry = "init_mrtrix_tractography_wf"
    /\ Truthy(cfg.sift_term_number) /\ Truthy(cfg.sift_term_ratio)
    /\ \E n \in created : n.name = <<"tcksift">>

\* niu.Merge at run time: the sources connected to in1..inN, in port order
\* (an unconnected port is skipped).
MergeOut(w, m) ==
    LET n == Cardinality(m.ins)
        fed(k) == {e \in w.edges : e.dst = m.name /\ e.dport = <<"in", Str[k]>>}
        source(k) == LET e == CHOOSE e \in fed(k) : TRUE IN <<e.src, e.sport>>
        ports == SelectSeq([k \in 1..n |-> k], LAMBDA k : fed(k) # {})
    IN  [i \in 1..Len(ports) |-> source(ports[i])]

\* pe.MapNode over iterfield ["in_file", "desc"] at run time: one sink per
\* position of the list arriving on in_file, paired with desc at the same
\* position.
MapNodeSinks(w, sink, merge) ==
    LET files == MergeOut(w, merge)
    IN  [i \in 1..Len(files) |->
            [in_file |-> files[i],
             desc |-> IF i <= Len(sink.desc) THEN sink.desc[i] ELSE "undefined"]]

\* C6: the tensor builder returns a workflow whose sink fans out into exactly
\* N sinks for the N tensor parameters, with pairwise distinct desc tags; the
\* parameter at index i (from 0) is wired to port in(i+1) of a Merge of
\* capacity N, and sink i+1 pairs that parameter's map with desc[i].
C6_TensorFanout ==
    (entry = "init_mrtrix3_tensor_wf" /\ pc \in {"return", "returned", "raised"})
    => /\ pc # "raised"
       /\ \E merge \in wf.nodes, sink \in wf.nodes :
            /\ merge.kind = "fan-in" /\ sink.kind = "mapnode"
            /\ Cardinality(merge.ins) = Len(TENSOR_PARAMETERS)
            /\ <<merge.name, <<"out">>, sink.name, <<"in_file">>>> \in
                  {<<e.src, e.sport, e.dst, e.dport>> : e \in wf.edges}
            /\ LET sinks == MapNodeSinks(wf, sink, merge)
               IN  /\ Len(sinks) = Len(TENSOR_PARAMETERS)
                   /\ \A i, j \in DOMAIN sinks :
                         i # j => sinks[i].desc # sinks[j].desc
                   /\ \A i \in DOMAIN sinks :
                         /\ sinks[i].desc = TENSOR_PARAMETERS[i]
                         /\ sinks[i].in_file =
                               <<<<"outputnode">>, <<TENSOR_PARAMETERS[i]>>>>
                         /\ \E e \in wf.edges :
                               /\ e.src = <<"outputnode">>
                               /\ e.sport = <<TENSOR_PARAMETERS[i]>>
                               /\ e.dst = merge.name
                               /\ e.dport = <<"in", Str[i]>>
                         /\ \E e \in wf.edges :
                               /\ e.dst = <<"outputnode">>
                               /\ e.dport = <<TENSOR_PARAMETERS[i]>>
                               /\ e.sport = <<"out", TENSOR_PARAMETERS[i]>>

\* C6 witness: the tensor workflow has been returned with its nine sinks.
C6_Witness ==
    /\ entry = "init_mrtrix3_tensor_wf"
    /\ pc = "returned"
    /\ \E merge \in wf.nodes, sink \in wf.nodes :
          /\ merge.kind = "fan-in" /\ sink.kind = "mapnode"
          /\ Len(MapNodeSinks(wf, sink, merge)) = Len(TENSOR_PARAMETERS)
          /\ Len(TENSOR_PARAMETERS) > 1

\* C7: every connection the builders hand to Workflow.connect names only
\* declared ports of its source and destination nodes.
C7_DeclaredPorts == \A c \in requested : PortsDeclared(c)

ProcedureBuilders ==
    {"init_registration_wf", "init_mrtrix3_tensor_wf",
     "init_mrtrix_tractography_wf", "init_tractography_wf"}

\* C8: a workflow returned by a procedure builder holds a node named
\* inputnode and a node named outputnode.
C8_InputAndOutputNode ==
    (entry \in ProcedureBuilders /\ pc = "returned")
    => /\ <<"inputnode">> \in NodeNames(wf)
       /\ <<"outputnode">> \in NodeNames(wf)

C10_FailureAbortsBuild ==
    entry = "init_qsipost_wf" =>
        \A i \in DOMAIN calls :
            init_single_subject_wf(calls[i], cfg).err # "none"
            => /\ i = Len(calls)
               /\ pc = "raised"
               /\ err = init_single_subject_wf(calls[i], cfg).err
               /\ NodeNames(wf) = {subject_wf_name(calls[j]) : j \in 1..(i - 1)}
               /\ log_dirs = {log_dir(calls[j]) : j \in 1..(i - 1)}

\* C10 witness: a subject's build has failed while a later participant is
\* still waiting.
C10_Witness ==
    /\ entry = "init_qsipost_wf"
    /\ pc = "raised"
    /\ Len(calls) >= 1
    /\ Len(calls) < Len(cfg.participant_label)
    /\ init_single_subject_wf(calls[Len(calls)], cfg).err # "none"

\* The subjects whose subgraph init_qsipost_wf has built and merged.
BuiltSubjects ==
    {sid \in Subjects : entry = "init_qsipost_wf"
                         /\ subject_wf_name(sid) \in NodeNames(wf)}

\* C11: for every subject that is built, the crash directory of the subject
\* workflow and of every node inside it is output_dir/sub-<id>/log/run_uuid,
\* that directory is the one created and the one the configuration is saved
\* into, and no other subject id has the same directory.
C11_PerSubjectLogDir ==
    \A sid \in BuiltSubjects :
        LET w == init_single_subject_wf(sid, cfg).wf
        IN  /\ \A n \in {<<>>} \cup NodeNames(w) :
                  [wf |-> w.name, node |-> n, dir |-> log_dir(sid)] \in crashdump
            /\ \A d \in crashdump : d.wf = w.name => d.dir = log_dir(sid)
            /\ log_dir(sid) \in log_dirs
            /\ Append(log_dir(sid), "qsipost.toml") \in saved
            /\ \A other \in Subjects \ {sid} : log_dir(other) # log_dir(sid)

\* C11 case: some subject has been built.
C11_Witness ==
    BuiltSubjects # {}

\* The pairs (a, b) of nodes with a directed path from a to b in the
\* relation R.
RECURSIVE Closure(_)
Closure(R) ==
    LET R2 == R \cup {<<x[1][1], x[2][2]>> :
                         x \in {y \in R \X R : y[1][2] = y[2][1]}}
    IN  IF R2 = R THEN R ELSE Closure(R2)

\* No directed cycle among the nodes joined by the edges E.
Acyclic(E) ==
    \A p \in Closure({<<e.src, e.dst>> : e \in E}) : p[1] # p[2]

\* C12: after every connect step of every builder the workflow graph has no
\* directed cycle, during construction and in the final graph; nor do the
\* connections the builder has asked for so far form one.
C12_Acyclic ==
    /\ Acyclic(wf.edges)
    /\ Acyclic({EdgeOf(c) : c \in requested})

\* C12 witness: a builder has returned a graph in which some edge leads
\* into a node that another edge leaves.
C12_Witness ==
    /\ pc = "returned"
    /\ err = "none"
    /\ \E e1 \in wf.edges : \E e2 \in wf.edges : e1.dst = e2.src

\* The edges of w that end in port p of node n.
Incoming(w, n, p) == {e \in w.edges : e.dst = n /\ e.dport = p}

\* C13: no input port of any node ever has two incoming edges, and once
\* init_mrtrix_tractography_wf has ended (filtering disabled, or enabled with
\* a criterion set) outputnode.tck_file has exactly one incoming edge: from
\* tckgen.out_file when filtering is disabled, from tcksift.out_file when it
\* is enabled.
C13_OneTckSource ==
    /\ \A e \in wf.edges : Incoming(wf, e.dst, e.dport) = {e}
    /\ (/\ entry = "init_mrtrix_tractography_wf"
        /\ Ended
        /\ (cfg.do_sift_filtering =>
               Truthy(cfg.sift_term_number) \/ Truthy(cfg.sift_term_ratio)))
       => Incoming(wf, <<"outputnode">>, <<"tck_file">>) =
            {[src |-> IF cfg.do_sift_filtering THEN <<"tcksift">> ELSE <<"tckgen">>,
              sport |-> <<"out_file">>,
              dst |-> <<"outputnode">>, dport |-> <<"tck_file">>]}

\* C14: whenever a build_workflow call has ended, retval["return_code"] is 0
\* only if this call returned and retval["workflow"] is the workflow this
\* call built; and if this call raised while loading the configuration,
\* collecting the participants or building the graph, retval["return_code"]
\* is 1 and retval["workflow"] is None.
C14_RetvalTellsThisCall ==
    (entry = "build_workflow" /\ Ended)
    => /\ (retval.has_keys /\ retval.return_code = 0)
          => (pc = "returned" /\ retval.workflow = callno)
       /\ (pc = "raised" /\ err # "to_filename")
          => (retval.has_keys /\ retval.return_code = 1 /\ retval.workflow = 0)

====
